---- MODULE Spec2Model ----
(***************************************************************************)
(* WebWhisper AI: the page-to-context normalizer (clean_text), the console *)
(* question loop (console.py) and the Streamlit session (streamlit-app.py).*)
(* Text is a sequence of one-character strings.                            *)
(***************************************************************************)
EXTENDS Integers, Sequences, FiniteSets, TLC

VARIABLES
  n_pc,      \* normalizer harness: "input" -> "once" -> "twice"
  n_text,    \* the raw text handed to clean_text
  n_once,    \* clean_text(n_text)
  n_twice,   \* clean_text(clean_text(n_text))
  c_pc,      \* console: position in main() / run_chatbot()
  c_raw,     \* console: raw_text, the value scrape_website returned
  c_context, \* console: cleaned_context
  c_fetches, \* console: HTTP GETs issued
  c_inputs,  \* console: input lines read by the loop
  c_calls,   \* console: Answerer (model_pipeline) invocations
  c_turn,    \* console: what the last loop iteration read, chose and printed
  c_msg,     \* console: the last status line printed by main() / the loop
  live,          \* UI: the sessions (browser tabs) that are open
  model_cache,   \* UI: st.cache_resource's entry for load_model, shared by all sessions
  session_state, \* UI: st.session_state of each session
  website_url,   \* UI: the value of each session's URL text input
  u_pc,          \* UI: "new" (never run), "idle" (waiting for the user), "rerun" (st.rerun pending)
  widgets,       \* UI: the input widgets the last script run rendered
  u_run          \* UI: what each session's last script run did

n_vars == <<n_pc, n_text, n_once, n_twice>>

c_vars == <<c_pc, c_raw, c_context, c_fetches, c_inputs, c_calls, c_turn, c_msg>>

u_vars == <<live, model_cache, session_state, website_url, u_pc, widgets, u_run>>

vars == <<n_vars, c_vars, u_vars>>

(***************************************************************************)
(* Text helpers                                                            *)
(***************************************************************************)

\* Characters matched by the regular expression class \s and removed by
\* str.strip(): the members that occur in the modelled texts.
Whitespace == {" ", "\t", "\n"}

\* n copies of the character c
Rep(c, n) == [i \in 1..n |-> c]

\* The optional value None, and a present value.
None == [some |-> FALSE, val |-> <<>>]

Some(v) == [some |-> TRUE, val |-> v]

\* Python truthiness of an optional text: None and "" are falsy.
Truthy(o) == o.some /\ o.val # <<>>

(***************************************************************************)
(* clean_text                                                              *)
(***************************************************************************)

\* max_length = 2000
max_length == 2000

\* the truncation marker "..."
Marker == <<".", ".", ".">>

\* re.sub(r'\s+', ' ', text): every maximal run of whitespace becomes one
\* space.  A whitespace character is kept (as a space) exactly when it
\* begins a run.
re_sub_ws(text) ==
  LET first(i) == (text[i] \notin Whitespace) \/ i = 1 \/ (text[i - 1] \notin Whitespace)
      idx == SelectSeq([i \in 1..Len(text) |-> i], first)
  IN  [j \in 1..Len(idx) |-> IF text[idx[j]] \in Whitespace THEN " " ELSE text[idx[j]]]

\* str.strip(): drop every leading and trailing whitespace character.
strip(text) ==
  LET solid(i) == text[i] \notin Whitespace
      idx == SelectSeq([i \in 1..Len(text) |-> i], solid)
  IN  IF idx = <<>> THEN <<>> ELSE SubSeq(text, idx[1], idx[Len(idx)])

\* text[:n]
Prefix(text, n) == SubSeq(text, 1, IF Len(text) < n THEN Len(text) ELSE n)

\* Mutant of clean_text: truncates the raw text first and collapses after.
clean_text_truncate_first(text) ==
  IF text = <<>> THEN <<>>
  ELSE LET cut == IF Len(text) > max_length
                  THEN Prefix(text, max_length) \o Marker
                  ELSE text
       IN  strip(re_sub_ws(cut))

\* Mutant of clean_text: the cut is taken at ">=" instead of ">".
clean_text_off_by_one(text) ==
  IF text = <<>> THEN <<>>
  ELSE LET t2 == strip(re_sub_ws(text))
       IN  IF Len(t2) >= max_length THEN Prefix(t2, max_length) \o Marker ELSE t2

\* console.py clean_text
clean_text(text) ==
  IF text = <<>> THEN <<>>
  ELSE LET t1 == re_sub_ws(text)
           t2 == strip(t1)
       IN  IF Len(t2) > max_length THEN Prefix(t2, max_length) \o Marker ELSE t2

(***************************************************************************)
(* Normalizer harness: clean_text applied once and twice to bounded inputs *)
(***************************************************************************)

\* how many pieces an input text is made of
MaxPieces == 3

\* Building blocks of the input texts: whitespace of every kind, words, a
\* word one short of the budget and a word of exactly the budget.
Pieces ==
  { <<>>, <<" ">>, <<"\n", "\t">>, <<"a">>, <<"b", " ", " ", "c">>,
    Rep("a", max_length - 1), Rep("b", max_length), Rep(" ", max_length) }

RECURSIVE Concats(_)
Concats(k) ==
  IF k = 0 THEN {<<>>}
  ELSE {p \o t : p \in Pieces, t \in Concats(k - 1)}

Inputs == Concats(MaxPieces)

NormOff ==
  /\ n_pc = "off"
  /\ n_text = <<>>
  /\ n_once = <<>>
  /\ n_twice = <<>>

NormInit ==
  /\ n_pc = "input"
  /\ n_text \in Inputs
  /\ n_once = <<>>
  /\ n_twice = <<>>

Normalize ==
  /\ n_pc = "input"
  /\ n_once' = clean_text(n_text)
  /\ n_pc' = "once"
  /\ UNCHANGED <<n_text, n_twice, c_vars, u_vars>>

NormalizeAgain ==
  /\ n_pc = "once"
  /\ n_twice' = clean_text(n_once)
  /\ n_pc' = "twice"
  /\ UNCHANGED <<n_text, n_once, c_vars, u_vars>>

(***************************************************************************)
(* The external collaborators: the Fetcher and the Answerer                *)
(***************************************************************************)

\* website_url = "https://botpenguin.com/" (the console's URL and the
\* default of the UI's URL field), and a second site.
DefaultUrl == "https://botpenguin.com/"

OtherUrl == "https://example.com"

\* The raw page text (soup.get_text()) a URL may serve: a short page with
\* whitespace runs, a page whose collapsed text is over the budget with the
\* cut falling on a space, a page of whitespace only, a page with no text,
\* and a page over the budget raw but not collapsed; for the second site a short page and a
\* page of exactly the budget.
PagesOf(url) ==
  IF url = DefaultUrl
  THEN { <<"B", "o", "t", " ", " ", "P", "e", "n", "g", "u", "i", "n", "\n", " ", "c", "h",
           "a", "t", " ">>,
         Rep("a", max_length - 1) \o <<" ", "\n", "b", "c">>,
         <<" ", "\n">>,
         <<>>,
         Rep(" ", max_length) \o <<"x", "\t">> }
  ELSE { <<"E", "x", "a", "m", "p", "l", "e">>,
         Rep("e", max_length) }

\* What requests.get + raise_for_status + BeautifulSoup produce for a URL:
\* the page text, or an exception (connection/timeout, HTTP status, parse).
FetchOutcomes(url) ==
  {[ok |-> TRUE, text |-> p, err |-> "none"] : p \in PagesOf(url)}
    \cup {[ok |-> FALSE, text |-> <<>>, err |-> e] : e \in {"network", "http", "parse"}}

\* What model_pipeline(prompt, ...) produces: a generated text (possibly
\* empty, whitespace only, or padded with whitespace), or an exception with
\* its message.
AnswererOutcomes ==
  {[raised |-> FALSE, text |-> g] :
     g \in { <<"I", "t", " ", "i", "s", " ", "a", " ", "b", "o", "t", ".">>,
             <<>>,
             <<" ", "\n">>,
             <<" ", "n", "o", "\n">> }}
    \cup {[raised |-> TRUE, text |-> <<"b", "o", "o", "m">>]}

\* a text of whitespace only (the empty text included)
IsBlankText(text) == \A i \in 1..Len(text) : text[i] \in Whitespace

\* the Answerer's outcome recorded for a run or turn that did not invoke it
NoAnswer == [raised |-> FALSE, text |-> <<>>]

(***************************************************************************)
(* console.py                                                              *)
(***************************************************************************)

UpperCase ==
  <<"A", "B", "C", "D", "E", "F", "G", "H", "I", "J", "K", "L", "M", "N", "O", "P", "Q",
    "R", "S", "T", "U", "V", "W", "X", "Y", "Z">>

LowerCase ==
  <<"a", "b", "c", "d", "e", "f", "g", "h", "i", "j", "k", "l", "m", "n", "o", "p", "q",
    "r", "s", "t", "u", "v", "w", "x", "y", "z">>

\* str.lower(): every upper-case letter becomes its lower-case letter.
lower(text) ==
  [i \in 1..Len(text) |->
     IF \E k \in 1..Len(UpperCase) : UpperCase[k] = text[i]
     THEN LowerCase[CHOOSE k \in 1..Len(UpperCase) : UpperCase[k] = text[i]]
     ELSE text[i]]

\* scrape_website (console): the page text, or None on any exception.
scrape_website(outcome) == IF outcome.ok THEN Some(outcome.text) ELSE None

\* "I couldn't generate a proper answer. Please try rephrasing your question."
Fallback ==
  <<"I", " ", "c", "o", "u", "l", "d", "n", "'", "t", " ", "g", "e", "n", "e", "r", "a",
    "t", "e", " ", "a", " ", "p", "r", "o", "p", "e", "r", " ", "a", "n", "s", "w", "e",
    "r", ".", " ", "P", "l", "e", "a", "s", "e", " ", "t", "r", "y", " ", "r", "e", "p",
    "h", "r", "a", "s", "i", "n", "g", " ", "y", "o", "u", "r", " ", "q", "u", "e", "s",
    "t", "i", "o", "n", ".">>

\* "Error generating response: "
ErrorPrefix ==
  <<"E", "r", "r", "o", "r", " ", "g", "e", "n", "e", "r", "a", "t", "i", "n", "g", " ",
    "r", "e", "s", "p", "o", "n", "s", "e", ":", " ">>

\* Mutant of ask_model: the empty-response check is missing.
ask_model_no_fallback(outcome) ==
  IF outcome.raised THEN <<"#", " ">> \o ErrorPrefix \o outcome.text
  ELSE strip(outcome.text)

\* ask_model (console): the generated text stripped, the fallback message
\* when that is empty, and the error text when the pipeline raised.  "#"
\* stands for the cross-mark character that opens the console's error text.
ask_model(outcome) ==
  IF outcome.raised THEN <<"#", " ">> \o ErrorPrefix \o outcome.text
  ELSE LET answer == strip(outcome.text)
       IN  IF answer = <<>> THEN Fallback ELSE answer

\* Mutant of Dispatch: the input line is not stripped.
Dispatch_no_strip(line) ==
  LET user_question == line
  IN  IF lower(user_question) = <<"e", "x", "i", "t">> THEN "exit"
      ELSE IF lower(user_question) = <<"h", "e", "l", "p">> THEN "help"
      ELSE IF user_question = <<>> THEN "warning"
      ELSE "answer"

\* run_chatbot's dispatch of one input line: the branch the loop body takes.
Dispatch(line) ==
  LET user_question == strip(line)
  IN  IF lower(user_question) = <<"e", "x", "i", "t">> THEN "exit"
      ELSE IF lower(user_question) = <<"h", "e", "l", "p">> THEN "help"
      ELSE IF user_question = <<>> THEN "warning"
      ELSE "answer"

\* how many lines the console loop reads in a run
MaxTurns == 3

\* The lines typed at the console prompt.
Lines ==
  { <<"e", "x", "i", "t">>, <<"E", "X", "I", "T">>, <<"E", "x", "i", "t">>,
    <<" ", "e", "x", "i", "t", " ">>,
    <<"h", "e", "l", "p">>, <<" ", "H", "e", "l", "p", "\t">>,
    <<>>, <<" ", "\t">>,
    <<"e", "x", "i", "t", " ", "n", "o", "w">>,
    <<"W", "h", "a", "t", " ", "i", "s", " ", "t", "h", "i", "s", "?">> }

\* A loop iteration: the line read, the branch taken, whether the Answerer
\* was invoked and with what outcome, and the answer printed.
NoTurn ==
  [line |-> <<>>, route |-> "none", asked |-> FALSE, outcome |-> NoAnswer, answer |-> <<>>]

ConsoleInit ==
  /\ c_pc = "main"
  /\ c_raw = None
  /\ c_context = None
  /\ c_fetches = 0
  /\ c_inputs = 0
  /\ c_calls = 0
  /\ c_turn = NoTurn
  /\ c_msg = "banner"

ConsoleOff ==
  /\ c_pc = "off"
  /\ c_raw = None
  /\ c_context = None
  /\ c_fetches = 0
  /\ c_inputs = 0
  /\ c_calls = 0
  /\ c_turn = NoTurn
  /\ c_msg = "none"

\* Mutant of MainAfterScrape: the two early returns are missing.
MainAfterScrape_no_return(raw_text) ==
  LET cleaned_context == IF raw_text.some THEN clean_text(raw_text.val) ELSE <<>>
  IN  [pc |-> "load_model", context |-> Some(cleaned_context), msg |-> "extracted"]

\* main(), from the value scrape_website returned to the model load: return
\* on a falsy raw_text, clean, return on an empty cleaned_context.
MainAfterScrape(raw_text) ==
  IF ~Truthy(raw_text)
  THEN [pc |-> "returned", context |-> None, msg |-> "Failed to scrape website. Exiting."]
  ELSE LET cleaned_context == clean_text(raw_text.val)
       IN  IF cleaned_context = <<>>
           THEN [pc |-> "returned", context |-> None,
                 msg |-> "No content extracted from website. Exiting."]
           ELSE [pc |-> "load_model", context |-> Some(cleaned_context), msg |-> "extracted"]

\* main(): STEP 1 and STEP 2.
CMainScrape ==
  /\ c_pc = "main"
  /\ \E outcome \in FetchOutcomes(DefaultUrl) :
       LET raw_text == scrape_website(outcome)
           after == MainAfterScrape(raw_text)
       IN  /\ c_raw' = raw_text
           /\ c_context' = after.context
           /\ c_pc' = after.pc
           /\ c_msg' = after.msg
  /\ c_fetches' = c_fetches + 1
  /\ UNCHANGED <<c_inputs, c_calls, c_turn, n_vars, u_vars>>

\* main(): STEP 3, pipeline(...) succeeds and run_chatbot starts, or raises
\* and main returns.
CMainLoadModel ==
  /\ c_pc = "load_model"
  /\ \E loaded \in BOOLEAN :
       /\ c_pc' = IF loaded THEN "AwaitingInput" ELSE "returned"
       /\ c_msg' = IF loaded THEN "WebWhisper AI is ready!" ELSE "Error loading model"
  /\ UNCHANGED <<c_raw, c_context, c_fetches, c_inputs, c_calls, c_turn, n_vars, u_vars>>

\* One iteration of run_chatbot's loop on one input line.
CLoop ==
  /\ c_pc = "AwaitingInput"
  /\ c_inputs < MaxTurns
  /\ \E line \in Lines :
     \E route \in {Dispatch(line)} :
     \E outcome \in IF route = "answer" THEN AnswererOutcomes ELSE {NoAnswer} :
           /\ c_turn' = [line |-> line, route |-> route, asked |-> route = "answer",
                         outcome |-> outcome,
                         answer |-> IF route = "answer" THEN ask_model(outcome) ELSE <<>>]
           /\ c_calls' = IF route = "answer" THEN c_calls + 1 ELSE c_calls
           /\ c_pc' = IF route = "exit" THEN "ExitRequested" ELSE "AwaitingInput"
           /\ c_msg' = CASE route = "exit" -> "Thank you for using WebWhisper AI. Goodbye!"
                         [] route = "help" -> "Example questions you can ask:"
                         [] route = "warning" -> "Please enter a question."
                         [] OTHER -> "WebWhisper: "
  /\ c_inputs' = c_inputs + 1
  /\ UNCHANGED <<c_raw, c_context, c_fetches, n_vars, u_vars>>

\* input() raises instead of returning a line: EOFError when standard input
\* is at its end, KeyboardInterrupt when the user interrupts the prompt.
\* Nothing in run_chatbot or main catches it: the exception leaves the loop
\* and the process ends with a traceback.
CInputRaises ==
  /\ c_pc = "AwaitingInput"
  /\ c_pc' = "raised"
  /\ c_turn' = NoTurn
  /\ c_msg' = "Traceback (most recent call last):"
  /\ UNCHANGED <<c_raw, c_context, c_fetches, c_inputs, c_calls, n_vars, u_vars>>

ConsoleNext == CMainScrape \/ CMainLoadModel \/ CLoop \/ CInputRaises

(***************************************************************************)
(* streamlit-app.py                                                        *)
(***************************************************************************)

\* the sessions that can be opened
Sessions == {1, 2}

\* how many question/answer exchanges a session's log may hold
MaxExchanges == 2

\* the values the URL text input can hold
Urls == {"", DefaultUrl, OtherUrl}

\* What st.chat_input hands to the script on a submission.
ChatInputs ==
  { <<"e", "x", "i", "t">>, <<"h", "e", "l", "p">>, <<" ", "\t">>, <<>>,
    <<"W", "h", "a", "t", " ", "i", "s", " ", "t", "h", "i", "s", "?">> }

\* st.session_state before the script has run: no key is set.
NewSessionState ==
  [keys |-> {}, messages |-> <<>>, context |-> None, model |-> "None", url_loaded |-> FALSE]

\* A script run that made no external call: the event that triggered it, the
\* text st.chat_input returned (None without a submission), the fetch it
\* made and the raw text it got, the message given to st.error, whether it
\* invoked the Answerer and with what outcome, whether it ended in st.stop().
NoRun ==
  [event |-> "none", question |-> None, fetch |-> "none", raw |-> None, msg |-> "none",
   asked |-> FALSE, outcome |-> NoAnswer, stopped |-> FALSE]

\* scrape_website (UI): (text, None), or (None, error message).
st_scrape_website(outcome) ==
  IF outcome.ok THEN [text |-> Some(outcome.text), error |-> "none"]
  ELSE [text |-> None,
        error |-> IF outcome.err = "parse" THEN "Error parsing website" ELSE "Error fetching website"]

\* Mutant of st_clean_text: the truncation is missing.
st_clean_text_unbounded(text) ==
  IF text = <<>> THEN <<>> ELSE strip(re_sub_ws(text))

\* clean_text (UI)
st_clean_text(text) ==
  IF text = <<>> THEN <<>>
  ELSE LET t1 == re_sub_ws(text)
           t2 == strip(t1)
       IN  IF Len(t2) > max_length THEN Prefix(t2, max_length) \o Marker ELSE t2

\* Mutant of load_model: pipeline(...) runs at every call, the cached value
\* is not reused.
load_model_uncached(cache, load_ok) == IF load_ok THEN "pipeline" ELSE "error"

\* load_model under st.cache_resource: the first call runs pipeline(...) and
\* its return value, the pipeline or the error, is cached for every session.
load_model(cache, load_ok) ==
  IF cache = "empty" THEN (IF load_ok THEN "pipeline" ELSE "error") ELSE cache

\* ask_model (UI)
st_ask_model(outcome) ==
  IF outcome.raised THEN ErrorPrefix \o outcome.text
  ELSE LET answer == strip(outcome.text)
       IN  IF answer = <<>> THEN Fallback ELSE answer

\* Mutant of ResetSite: the conversation is kept.
ResetSite_keeps_messages(ss) ==
  [ss EXCEPT !.keys = @ \cup {"messages", "context", "url_loaded"},
             !.context = None,
             !.url_loaded = FALSE]

\* messages = [], context = None, url_loaded = False
ResetSite(ss) ==
  [ss EXCEPT !.keys = @ \cup {"messages", "context", "url_loaded"},
             !.messages = <<>>,
             !.context = None,
             !.url_loaded = FALSE]

\* "Initialize session state": every key that is not set gets its default.
InitializeState(ss) ==
  [keys |-> {"messages", "context", "model", "url_loaded"},
   messages |-> IF "messages" \in ss.keys THEN ss.messages ELSE <<>>,
   context |-> IF "context" \in ss.keys THEN ss.context ELSE None,
   model |-> IF "model" \in ss.keys THEN ss.model ELSE "None",
   url_loaded |-> IF "url_loaded" \in ss.keys THEN ss.url_loaded ELSE FALSE]

\* main(), the sidebar: the "Analyze Website" button.
Sidebar(ss, url, event) ==
  IF event = "analyze" /\ url # ""
  THEN [ss |-> ResetSite(ss), rerun |-> TRUE]
  ELSE [ss |-> ss, rerun |-> FALSE]

\* main(), "Load model (cached)": st.stop() when load_model returned an error.
LoadModel(ss, cache, load_ok) ==
  IF ss.model = "None"
  THEN LET got == load_model(cache, load_ok)
       IN  IF got = "error"
           THEN [ss |-> ss, cache |-> got, stopped |-> TRUE]
           ELSE [ss |-> [ss EXCEPT !.model = got], cache |-> got, stopped |-> FALSE]
  ELSE [ss |-> ss, cache |-> cache, stopped |-> FALSE]

\* main(), "Load website content if not already loaded", once the fetch is
\* known to run (not url_loaded and website_url).
LoadSite(ss, url, outcome) ==
  LET got == st_scrape_website(outcome)
  IN  IF got.error # "none"
      THEN [ss |-> ss, fetch |-> "error", raw |-> None, msg |-> got.error]
      ELSE LET cleaned_context == st_clean_text(got.text.val)
           IN  IF cleaned_context = <<>>
               THEN [ss |-> ss, fetch |-> "empty", raw |-> got.text,
                     msg |-> "No content could be extracted from this website."]
               ELSE [ss |-> [ss EXCEPT !.context = Some(cleaned_context),
                                       !.url_loaded = TRUE],
                     fetch |-> "ok", raw |-> got.text, msg |-> "none"]

\* Mutant of Submit: the answer is appended before the question.
Submit_answer_first(ss, user_question, outcome) ==
  [ss EXCEPT !.messages =
     Append(Append(@, [role |-> "assistant", content |-> st_ask_model(outcome)]),
            [role |-> "user", content |-> user_question])]

\* main(), "if user_question:": the question and the answer are appended.
Submit(ss, user_question, outcome) ==
  [ss EXCEPT !.messages =
     Append(Append(@, [role |-> "user", content |-> user_question]),
            [role |-> "assistant", content |-> st_ask_model(outcome)])]

\* Mutant of Asks: the submission is dispatched as the console loop does.
Asks_console_dispatch(ss, event, user_question) ==
  Truthy(ss.context) /\ event = "chat" /\ Dispatch(user_question) = "answer"

\* Whether a script run reaches the Answerer: the chat interface is shown
\* (context is truthy) and st.chat_input returned a truthy text.
Asks(ss, event, user_question) ==
  Truthy(ss.context) /\ event = "chat" /\ user_question # <<>>

\* Mutant of Buttons: "Clear Chat" also drops the context.
Buttons_clear_drops_context(ss, event) ==
  IF event = "clear"
  THEN [ss |-> [ss EXCEPT !.messages = <<>>, !.context = None], rerun |-> TRUE,
        widgets |-> {"clear"}]
  ELSE IF event = "new_website"
  THEN [ss |-> ResetSite(ss), rerun |-> TRUE, widgets |-> {"clear", "new_website"}]
  ELSE [ss |-> ss, rerun |-> FALSE, widgets |-> {"clear", "new_website"}]

\* main(), "Action buttons", once they are known to be shown (context is
\* truthy, no question was submitted, messages is not empty).
Buttons(ss, event) ==
  IF event = "clear"
  THEN [ss |-> [ss EXCEPT !.messages = <<>>], rerun |-> TRUE, widgets |-> {"clear"}]
  ELSE IF event = "new_website"
  THEN [ss |-> ResetSite(ss), rerun |-> TRUE, widgets |-> {"clear", "new_website"}]
  ELSE [ss |-> ss, rerun |-> FALSE, widgets |-> {"clear", "new_website"}]

\* One run of the script, top to bottom, for session s: the widget event
\* that triggered it (or "none"), the text st.chat_input returns, and the
\* outcomes of the external calls the run makes.
Script(s, event, user_question) ==
  \E side \in {Sidebar(session_state[s], website_url'[s], event)} :
    IF side.rerun
    THEN /\ session_state' = [session_state EXCEPT ![s] = side.ss]
         /\ u_pc' = [u_pc EXCEPT ![s] = "rerun"]
         /\ widgets' = [widgets EXCEPT ![s] = {"url", "analyze"}]
         /\ u_run' = [u_run EXCEPT ![s] = [NoRun EXCEPT !.event = event]]
         /\ UNCHANGED model_cache
    ELSE \E load_ok \in IF model_cache = "empty" THEN BOOLEAN ELSE {TRUE} :
         \E m \in {LoadModel(InitializeState(side.ss), model_cache, load_ok)} :
         \E fetches \in {~m.stopped /\ ~m.ss.url_loaded /\ website_url'[s] # ""} :
         \E fo \in IF fetches THEN FetchOutcomes(website_url'[s]) ELSE {[ok |-> FALSE]} :
         \E site \in {IF fetches THEN LoadSite(m.ss, website_url'[s], fo)
                      ELSE [ss |-> m.ss, fetch |-> "none", raw |-> None, msg |-> "none"]} :
         \E chat \in {~m.stopped /\ Truthy(site.ss.context)} :
         \E asks \in {~m.stopped /\ Asks(site.ss, event, user_question)} :
         \E ao \in IF asks THEN AnswererOutcomes ELSE {NoAnswer} :
         \E btn \in {IF chat /\ ~asks /\ site.ss.messages # <<>>
                     THEN Buttons(site.ss, event)
                     ELSE [ss |-> site.ss, rerun |-> FALSE, widgets |-> {}]} :
           /\ model_cache' = m.cache
           /\ session_state' = [session_state EXCEPT ![s] =
                                  IF asks THEN Submit(site.ss, user_question, ao)
                                  ELSE btn.ss]
           /\ u_pc' = [u_pc EXCEPT ![s] = IF asks \/ btn.rerun THEN "rerun" ELSE "idle"]
           /\ widgets' = [widgets EXCEPT ![s] =
                            {"url", "analyze"}
                              \cup (IF chat THEN {"chat_input"} ELSE {})
                              \cup btn.widgets]
           /\ u_run' = [u_run EXCEPT ![s] =
                          [event |-> event,
                           question |-> IF event = "chat" THEN Some(user_question) ELSE None,
                           fetch |-> site.fetch, raw |-> site.raw,
                           msg |-> IF m.stopped THEN "Error loading model" ELSE site.msg,
                           asked |-> asks, outcome |-> ao, stopped |-> m.stopped]]

UIInit ==
  /\ model_cache = "empty"
  /\ session_state = [s \in Sessions |-> NewSessionState]
  /\ website_url = [s \in Sessions |-> DefaultUrl]
  /\ u_pc = [s \in Sessions |-> "new"]
  /\ widgets = [s \in Sessions |-> {}]
  /\ u_run = [s \in Sessions |-> NoRun]

UIOff == UIInit /\ live = {}

\* A browser opens the app: the first script run of a session.
UIOpen(s) ==
  /\ s \in live
  /\ u_pc[s] = "new"
  /\ UNCHANGED website_url
  /\ Script(s, "none", <<>>)
  /\ UNCHANGED <<live, n_vars, c_vars>>

\* The run that st.rerun() asked for.
UIRerun(s) ==
  /\ s \in live
  /\ u_pc[s] = "rerun"
  /\ UNCHANGED website_url
  /\ Script(s, "none", <<>>)
  /\ UNCHANGED <<live, n_vars, c_vars>>

\* The user changes the URL field: the script runs with no button pressed.
UIUrlEdit(s, url) ==
  /\ s \in live
  /\ u_pc[s] = "idle"
  /\ "url" \in widgets[s]
  /\ url # website_url[s]
  /\ website_url' = [website_url EXCEPT ![s] = url]
  /\ Script(s, "none", <<>>)
  /\ UNCHANGED <<live, n_vars, c_vars>>

\* The user presses "Analyze Website".
UIAnalyze(s) ==
  /\ s \in live
  /\ u_pc[s] = "idle"
  /\ "analyze" \in widgets[s]
  /\ UNCHANGED website_url
  /\ Script(s, "analyze", <<>>)
  /\ UNCHANGED <<live, n_vars, c_vars>>

\* The user submits a text in the chat input.
UIChat(s, user_question) ==
  /\ s \in live
  /\ u_pc[s] = "idle"
  /\ "chat_input" \in widgets[s]
  /\ Len(session_state[s].messages) < 2 * MaxExchanges
  /\ UNCHANGED website_url
  /\ Script(s, "chat", user_question)
  /\ UNCHANGED <<live, n_vars, c_vars>>

\* The user presses "Clear Chat".
UIClear(s) ==
  /\ s \in live
  /\ u_pc[s] = "idle"
  /\ "clear" \in widgets[s]
  /\ UNCHANGED website_url
  /\ Script(s, "clear", <<>>)
  /\ UNCHANGED <<live, n_vars, c_vars>>

\* The user presses "New Website".
UINewWebsite(s) ==
  /\ s \in live
  /\ u_pc[s] = "idle"
  /\ "new_website" \in widgets[s]
  /\ UNCHANGED website_url
  /\ Script(s, "new_website", <<>>)
  /\ UNCHANGED <<live, n_vars, c_vars>>

UINext ==
  \E s \in Sessions :
    \/ UIOpen(s)
    \/ UIRerun(s)
    \/ \E url \in Urls : UIUrlEdit(s, url)
    \/ UIAnalyze(s)
    \/ \E user_question \in ChatInputs : UIChat(s, user_question)
    \/ UIClear(s)
    \/ UINewWebsite(s)

(***************************************************************************)
(* The specifications                                                      *)
(***************************************************************************)

NormNext == Normalize \/ NormalizeAgain

\* clean_text alone, on the bounded input texts
InitNormalize == NormInit /\ ConsoleOff /\ UIOff

SpecNormalize == InitNormalize /\ [][NormNext]_vars

\* Either program is started: the console script, or one UI session.
Init ==
  /\ NormOff
  /\ \/ ConsoleInit /\ UIOff
     \/ ConsoleOff /\ UIInit /\ live = {1}

Next == ConsoleNext \/ UINext

Spec == Init /\ [][Next]_vars

(***************************************************************************)
(* Two sessions of the UI, open at the same time                           *)
(***************************************************************************)

\* What each of the two users types: the first stays on the default URL,
\* the second also loads the other site, and each asks a question of their
\* own.
UrlsOf(s) == IF s = 1 THEN {DefaultUrl} ELSE {DefaultUrl, OtherUrl}

QuestionOf(s) ==
  IF s = 1 THEN <<"W", "h", "a", "t", " ", "i", "s", " ", "t", "h", "i", "s", "?">>
  ELSE <<"h", "e", "l", "p">>

\* the longest raw page the two sites serve while two sessions are open
MaxPage == 20

\* The inputs of the two-session runs, as the last script run of each
\* session recorded them: the URL field and the submitted text are the
\* session's own, a served page is a short one, and an Answerer call gives
\* a proper generation or raises.
SessionsEnv ==
  \A s \in Sessions :
    /\ website_url[s] \in UrlsOf(s)
    /\ u_run[s].question \in {None, Some(QuestionOf(s)), Some(<<>>)}
    /\ u_run[s].raw.some => Len(u_run[s].raw.val) <= MaxPage
    /\ u_run[s].asked => (u_run[s].outcome.raised \/ ~IsBlankText(u_run[s].outcome.text))

\* Both sessions are open before either has run the script.
InitSessions == NormOff /\ ConsoleOff /\ UIInit /\ live = {1, 2}

\* The actions of the UI, with the two users' inputs.
NextSessions ==
  \E s \in Sessions :
    \/ UIOpen(s) /\ SessionsEnv'
    \/ UIRerun(s) /\ SessionsEnv'
    \/ \E url \in Urls : UIUrlEdit(s, url) /\ SessionsEnv'
    \/ UIAnalyze(s) /\ SessionsEnv'
    \/ \E user_question \in ChatInputs : UIChat(s, user_question) /\ SessionsEnv'
    \/ UIClear(s) /\ SessionsEnv'
    \/ UINewWebsite(s) /\ SessionsEnv'

SpecSessions == InitSessions /\ [][NextSessions]_vars

(***************************************************************************)
(* The reference normalizer of the specification, stated without the code  *)
(***************************************************************************)

\* the non-whitespace characters of a text, in order
Solid(t) ==
  LET solid(ch) == ch \notin Whitespace
  IN  SelectSeq(t, solid)

\* the positions of the non-whitespace characters of a text, in order
SolidAt(t) ==
  LET solid(i) == t[i] \notin Whitespace
  IN  SelectSeq([i \in 1..Len(t) |-> i], solid)

\* c is t with every maximal whitespace run replaced by one space and the
\* leading and trailing whitespace removed: c's only whitespace is single
\* spaces strictly between two words, c and t hold the same non-whitespace
\* characters in the same order, and two neighbouring ones are adjacent in c
\* exactly when they are adjacent in t.
IsCollapseOf(c, t) ==
  LET pc == SolidAt(c)
      pt == SolidAt(t)
  IN  /\ \A i \in 1..Len(c) :
           c[i] \in Whitespace =>
             /\ c[i] = " "
             /\ 1 < i /\ i < Len(c)
             /\ c[i - 1] \notin Whitespace /\ c[i + 1] \notin Whitespace
      /\ Solid(c) = Solid(t)
      /\ \A k \in 2..Len(pc) : (pc[k] = pc[k - 1] + 1) <=> (pt[k] = pt[k - 1] + 1)

\* The collapsed text built in one pass: a whitespace character survives, as
\* a space, when it directly follows a word and a word follows later.
RefCollapse(t) ==
  LET pt == SolidAt(t)
      last == IF pt = <<>> THEN 0 ELSE pt[Len(pt)]
      kept(i) == \/ t[i] \notin Whitespace
                 \/ (1 < i /\ i < last /\ t[i - 1] \notin Whitespace)
      idx == SelectSeq([i \in 1..Len(t) |-> i], kept)
  IN  [j \in 1..Len(idx) |-> IF t[idx[j]] \in Whitespace THEN " " ELSE t[idx[j]]]

\* C2: for every input text t, clean_text(t) is the reference normalizer
\* with budget 2000: with c the collapsed and trimmed t, the result is c
\* itself when len(c) <= 2000, and the first 2000 characters of c followed
\* by the marker otherwise (then of length 2000 + 3); never longer than that.
C2_ReferenceNormalizer ==
  n_pc # "input" =>
    LET c == RefCollapse(n_text)
        r == n_once
    IN  /\ IsCollapseOf(c, n_text)
        /\ Len(c) <= max_length => r = c
        /\ Len(c) > max_length =>
             /\ r = SubSeq(c, 1, max_length) \o Marker
             /\ Len(r) = max_length + Len(Marker)
        /\ Len(r) <= max_length + Len(Marker)

\* C2 witness: a raw text of 5000 or more characters of words and
\* whitespace runs was normalized to exactly 2000 + 3 characters.
C2_Witness ==
  /\ n_pc = "once"
  /\ Len(n_text) >= 5000
  /\ \E i \in 1..(Len(n_text) - 1) : n_text[i] \in Whitespace /\ n_text[i + 1] \in Whitespace
  /\ Len(n_once) = max_length + Len(Marker)
  /\ SubSeq(n_once, max_length + 1, max_length + Len(Marker)) = Marker

\* C3: normalization is idempotent, truncated results included:
\* clean_text(clean_text(t)) = clean_text(t).
C3_Idempotent == n_pc = "twice" => n_twice = n_once

\* C3 witness: a text was truncated, with the cut falling on a space, and
\* normalized a second time.
C3_Witness ==
  /\ n_pc = "twice"
  /\ Len(n_once) = max_length + Len(Marker)
  /\ n_once[max_length] = " "
  /\ Len(strip(re_sub_ws(n_text))) > max_length

(***************************************************************************)
(* The stored Context                                                      *)
(***************************************************************************)

\* ctx is what the reference normalizer makes of raw: the collapsed text,
\* or its first 2000 characters and the marker when it is longer.
IsNormalized(ctx, raw) ==
  LET c == RefCollapse(raw)
  IN  ctx = IF Len(c) > max_length THEN SubSeq(c, 1, max_length) \o Marker ELSE c

\* C1 as stated: the stored Context is never longer than the budget of 2000
\* characters, and when the raw text is longer than the budget it is the
\* budget-length prefix with the marker appended.
C1_AsStated ==
  /\ c_context.some =>
       /\ Len(c_context.val) <= max_length
       /\ Len(c_raw.val) > max_length =>
            c_context.val = Prefix(RefCollapse(c_raw.val), max_length) \o Marker
  /\ \A s \in Sessions :
       session_state[s].context.some =>
         /\ Len(session_state[s].context.val) <= max_length
         /\ (u_run[s].fetch = "ok" /\ Len(u_run[s].raw.val) > max_length) =>
              session_state[s].context.val
                = Prefix(RefCollapse(u_run[s].raw.val), max_length) \o Marker

\* C1, amended: in every reachable state of either variant the stored Context
\* has at most 2000 + 3 characters (the budget plus the marker); when the
\* collapsed page text is longer than the budget the stored Context is its
\* first 2000 characters with the marker appended (2003 characters), and
\* otherwise it is the collapsed text itself.
C1_ContextBound ==
  /\ c_context.some =>
       /\ Len(c_context.val) <= max_length + Len(Marker)
       /\ c_raw.some /\ IsNormalized(c_context.val, c_raw.val)
  /\ \A s \in Sessions :
       session_state[s].context.some =>
         /\ Len(session_state[s].context.val) <= max_length + Len(Marker)
         /\ u_run[s].fetch = "ok" => IsNormalized(session_state[s].context.val, u_run[s].raw.val)

\* C1 witness: a UI session stored a Context of 2003 characters, cut from a
\* page whose collapsed text is over the budget.
C1_Witness ==
  /\ u_run[1].fetch = "ok"
  /\ Len(RefCollapse(u_run[1].raw.val)) > max_length
  /\ session_state[1].context.some
  /\ Len(session_state[1].context.val) = max_length + Len(Marker)

(***************************************************************************)
(* The console loop                                                        *)
(***************************************************************************)

\* ch is the lower-case letter l or its upper-case form
FoldsTo(ch, l) ==
  ch = l \/ \E k \in 1..Len(LowerCase) : LowerCase[k] = l /\ UpperCase[k] = ch

\* line is the word, in any letter case, between optional whitespace
IsCommand(line, word) ==
  \E a \in 0..Len(line) :
    /\ a + Len(word) <= Len(line)
    /\ \A i \in 1..Len(line) :
         IF a < i /\ i <= a + Len(word)
         THEN FoldsTo(line[i], word[i - a])
         ELSE line[i] \in Whitespace

IsBlank(line) == \A i \in 1..Len(line) : line[i] \in Whitespace

\* C4: the console loop dispatches on the trimmed, case-folded line: "exit"
\* ends the loop, "help" shows the help, an empty or all-whitespace line
\* shows the warning, and only every other line reaches the Answerer.
C4_Dispatch ==
  c_turn.route # "none" =>
    LET line == c_turn.line
        exit == IsCommand(line, <<"e", "x", "i", "t">>)
        help == IsCommand(line, <<"h", "e", "l", "p">>)
    IN  /\ c_turn.route = (IF exit THEN "exit"
                           ELSE IF help THEN "help"
                           ELSE IF IsBlank(line) THEN "warning"
                           ELSE "answer")
        /\ exit <=> c_pc = "ExitRequested"
        /\ ~exit => c_pc = "AwaitingInput"
        /\ c_turn.asked <=> ~(exit \/ help \/ IsBlank(line))
        /\ IsBlank(line) => ~c_turn.asked /\ c_turn.answer = <<>>
        /\ c_calls <= c_inputs
        /\ ~c_turn.asked => c_calls < c_inputs

\* C4 witness: the line " exit " was read and the loop ended.
C4_Witness ==
  /\ c_turn.line = <<" ", "e", "x", "i", "t", " ">>
  /\ c_turn.route = "exit"
  /\ c_pc = "ExitRequested"

(***************************************************************************)
(* A failed fetch at startup                                               *)
(***************************************************************************)

\* C5: when the fetch fails, the session run invokes no Answerer: the
\* console prints the error and returns before the loop; the UI run shows the
\* error, leaves Context unset and renders no chat input.
C5_FetchFailure ==
  /\ (c_fetches > 0 /\ c_raw = None) =>
       /\ c_pc = "returned"
       /\ c_msg = "Failed to scrape website. Exiting."
       /\ c_context = None
       /\ c_inputs = 0 /\ c_calls = 0 /\ ~c_turn.asked
  /\ \A s \in Sessions :
       u_run[s].fetch = "error" =>
         /\ u_run[s].msg \in {"Error fetching website", "Error parsing website"}
         /\ session_state[s].context = None
         /\ ~session_state[s].url_loaded
         /\ "chat_input" \notin widgets[s]
         /\ ~u_run[s].asked
         /\ session_state[s].messages = <<>>

\* C5 witness: the console's fetch failed and main() returned.
C5_Witness ==
  /\ c_fetches = 1
  /\ c_raw = None
  /\ c_pc = "returned"

(***************************************************************************)
(* A question turn                                                         *)
(***************************************************************************)

\* The answer text a turn owes for an Answerer outcome: the error text when
\* the call failed, the fallback message for an empty or whitespace-only
\* generation, and otherwise the generation, as is or trimmed.
Owed(outcome, prefix, as_is) ==
  IF outcome.raised THEN prefix \o outcome.text
  ELSE IF IsBlank(outcome.text) THEN Fallback
  ELSE IF as_is THEN outcome.text
  ELSE strip(outcome.text)

\* the step is a console loop iteration that invoked the Answerer
ConsoleAsked == c_inputs' # c_inputs /\ c_turn'.asked

\* the step is a script run of session s that invoked the Answerer
Submitted(s) == u_pc[s] = "idle" /\ u_pc'[s] = "rerun" /\ u_run'[s].asked

\* What a question turn does, in either variant.
TurnContract(as_is) ==
  /\ ConsoleAsked =>
       /\ c_turn'.answer # <<>>
       /\ c_turn'.answer = Owed(c_turn'.outcome, <<"#", " ">> \o ErrorPrefix, as_is)
       /\ c_pc' = "AwaitingInput"
       /\ c_context' = c_context
  /\ \A s \in Sessions :
       Submitted(s) =>
         LET log == session_state'[s].messages
         IN  /\ log[Len(log)].content # <<>>
             /\ log[Len(log)].content = Owed(u_run'[s].outcome, ErrorPrefix, as_is)
             /\ session_state'[s].context = session_state[s].context
             /\ Truthy(session_state'[s].context)

\* Between script runs the chat input is on the page whenever a Context is
\* loaded (and the model is).
AcceptsQuestions ==
  \A s \in Sessions :
    (u_pc[s] = "idle" /\ Truthy(session_state[s].context) /\ ~u_run[s].stopped)
      => "chat_input" \in widgets[s]

\* C6 as stated: whatever the Answerer's outcome, the turn yields a
\* non-empty answer and the session goes on; a non-empty generation is shown
\* as is, an empty or whitespace-only one is replaced by the fallback, and a
\* failure is the answer text of that turn, Context unchanged.
C6_AsStated == [][TurnContract(TRUE)]_vars /\ []AcceptsQuestions

\* C6, amended: as C6, except that a generation that is not empty or
\* whitespace-only is shown with its leading and trailing whitespace
\* stripped.
C6_AnswerTurn == [][TurnContract(FALSE)]_vars /\ []AcceptsQuestions

\* C6 witness: a console turn whose Answerer call failed printed the error
\* text as its answer and the loop awaits the next line.
C6_Witness ==
  /\ c_turn.asked
  /\ c_turn.outcome.raised
  /\ c_turn.answer # <<>>
  /\ c_pc = "AwaitingInput"

(***************************************************************************)
(* The Exchange log of a UI session                                        *)
(***************************************************************************)

\* even length, user and assistant entries in turn, a user entry first
Alternates(log) ==
  /\ Len(log) % 2 = 0
  /\ \A i \in 1..Len(log) : log[i].role = IF i % 2 = 1 THEN "user" ELSE "assistant"

\* C7: every submitted question is one transition that appends exactly two
\* entries, the question as a user entry and then an assistant entry; so the
\* log always has even length and alternates, starting with a user entry.
C7_Exchange ==
  /\ [][\A s \in Sessions :
          Submitted(s) =>
            \E answer \in {st_ask_model(o) : o \in AnswererOutcomes} :
              session_state'[s].messages
                = session_state[s].messages
                    \o << [role |-> "user", content |-> u_run'[s].question.val],
                          [role |-> "assistant", content |-> answer] >>]_vars
  /\ [](\A s \in Sessions : Alternates(session_state[s].messages))

\* C7 witness: a second question was submitted after a first, and the log
\* holds four entries.
C7_Witness ==
  /\ u_run[1].asked
  /\ u_pc[1] = "rerun"
  /\ Len(session_state[1].messages) = 4

(***************************************************************************)
(* Loading a new source, clearing the chat                                 *)
(***************************************************************************)

IsReset(s) ==
  /\ session_state[s].context = None
  /\ ~session_state[s].url_loaded
  /\ session_state[s].messages = <<>>

\* C8 as stated: every "Analyze Website" or "New Website" press, whatever
\* the URL field holds, leaves Context unset, the loaded flag false and the
\* log empty right after it.
C8_AsStated ==
  \A s \in Sessions : u_run[s].event \in {"analyze", "new_website"} => IsReset(s)

\* C8, amended: every "New Website" press, and every "Analyze Website" press
\* made while the URL field is not empty, leaves Context unset, the loaded
\* flag false and the log empty right after it, before the next fetch runs.
C8_LoadResets ==
  \A s \in Sessions :
    (u_run[s].event = "new_website" \/ (u_run[s].event = "analyze" /\ website_url[s] # ""))
      => /\ IsReset(s)
         /\ u_pc[s] = "rerun"
         /\ u_run[s].fetch = "none"

\* C8 witness: "New Website" was pressed with an empty URL field, in a
\* session that had a Context and a conversation, and the session is reset.
C8_Witness ==
  /\ u_run[1].event = "new_website"
  /\ website_url[1] = ""
  /\ IsReset(1)

\* the step is a script run of session s started by the given button
Pressed(s, button) == u_pc[s] = "idle" /\ u_pc'[s] = "rerun" /\ u_run'[s].event = button

\* C9: Context is immutable once created: "Clear Chat" empties the log and
\* leaves Context and the loaded flag as they were, a submitted question
\* leaves Context as it was, no console loop iteration changes Context, and
\* only a load-new-source action changes a Context that exists.
C9_ContextImmutable ==
  [][/\ \A s \in Sessions :
          /\ Pressed(s, "clear") =>
               /\ session_state'[s].messages = <<>>
               /\ session_state'[s].context = session_state[s].context
               /\ session_state'[s].url_loaded = session_state[s].url_loaded
          /\ Pressed(s, "chat") => session_state'[s].context = session_state[s].context
          /\ (session_state[s].context.some
                /\ session_state'[s].context # session_state[s].context)
               => Pressed(s, "analyze") \/ Pressed(s, "new_website")
     /\ c_context.some => c_context' = c_context
     /\ c_pc = "AwaitingInput" => c_context' = c_context]_vars

\* C9 witness: "Clear Chat" was pressed; the log is empty and the Context
\* is still there.
C9_Witness ==
  /\ u_run[1].event = "clear"
  /\ u_pc[1] = "rerun"
  /\ session_state[1].messages = <<>>
  /\ Truthy(session_state[1].context)
  /\ session_state[1].url_loaded

(***************************************************************************)
(* Dispatch in the UI                                                      *)
(***************************************************************************)

\* the text the last script run of session s got from the chat input
Question(s) == u_run[s].question.val

\* C10 as stated: the UI dispatches as the console loop does: "exit",
\* "help" and an empty or all-whitespace submission never reach the Answerer
\* and add no log entries; only other text is treated as a question.
C10_AsStated ==
  \A s \in Sessions :
    u_run[s].event = "chat" =>
      (u_run[s].asked <=> ~( \/ IsCommand(Question(s), <<"e", "x", "i", "t">>)
                             \/ IsCommand(Question(s), <<"h", "e", "l", "p">>)
                             \/ IsBlank(Question(s)) ))

\* C10, amended: the UI does not dispatch as the console loop does: a
\* submission reaches the Answerer and adds its two log entries exactly when
\* it is not the empty text; "exit", "help" and whitespace-only text are
\* treated as questions, and an empty submission changes nothing.
C10_UIDispatch ==
  /\ [](\A s \in Sessions :
          u_run[s].event = "chat" =>
            /\ u_run[s].asked <=> Question(s) # <<>>
            /\ u_run[s].asked =>
                 LET log == session_state[s].messages
                 IN  /\ u_pc[s] = "rerun"
                     /\ Len(log) >= 2
                     /\ log[Len(log) - 1] = [role |-> "user", content |-> Question(s)]
                     /\ log[Len(log)].role = "assistant"
            /\ ~u_run[s].asked => u_pc[s] = "idle")
  /\ [][\A s \in Sessions :
          (u_pc[s] = "idle" /\ u_run'[s].event = "chat" /\ ~u_run'[s].asked)
            => session_state'[s] = session_state[s]]_vars

\* C10 witness: "exit" was submitted in the UI, reached the Answerer and is
\* in the log.
C10_Witness ==
  /\ u_run[1].event = "chat"
  /\ Question(1) = <<"e", "x", "i", "t">>
  /\ u_run[1].asked
  /\ session_state[1].messages[Len(session_state[1].messages) - 1].content
       = <<"e", "x", "i", "t">>

(***************************************************************************)
(* Fetches after a failed fetch                                            *)
(***************************************************************************)

\* the step is a script run of session s (one that left a trace in the
\* session's state)
RunOf(s) ==
  <<session_state[s], website_url[s], u_pc[s], widgets[s], u_run[s]>>'
    # <<session_state[s], website_url[s], u_pc[s], widgets[s], u_run[s]>>

\* the run that is about to start in session s is the one a load action
\* ("Analyze Website", "New Website") asked for with st.rerun()
LoadRequested(s) == u_pc[s] = "rerun" /\ u_run[s].event \in {"analyze", "new_website"}

\* the last script run of session s made a fetch that failed
FetchFailed(s) == u_run[s].fetch = "error"

\* C11 as stated: no failed fetch is retried automatically.  The console
\* issues one fetch at most and returns when it fails.  In a UI session the
\* run that follows a failed fetch issues no fetch (a load request is a run
\* of its own, which resets and fetches nothing); a run that no load action
\* asked for, entered with Context unset and the loaded flag false, issues no
\* fetch; and a user action (its run and the run st.rerun() asks for) issues
\* at most one fetch.
C11_AsStated ==
  /\ [](c_fetches <= 1 /\ (c_fetches = 1 /\ c_raw = None => c_pc = "returned"))
  /\ [][\A s \in Sessions :
          RunOf(s) =>
            /\ FetchFailed(s) => u_run'[s].fetch = "none"
            /\ (u_pc[s] # "new" /\ ~LoadRequested(s)
                  /\ session_state[s].context = None /\ ~session_state[s].url_loaded)
                 => u_run'[s].fetch = "none"
            /\ (u_pc[s] = "rerun" /\ u_run'[s].fetch # "none") => u_run[s].fetch = "none"
            /\ u_pc[s] = "rerun" => u_pc'[s] = "idle"]_vars

\* C11, the part the code keeps: the console issues one fetch at most and
\* returns when it fails, and a user action of a UI session (its run and the
\* run st.rerun() asks for) issues at most one fetch.
C11_OneFetchPerAction ==
  /\ [](c_fetches <= 1 /\ (c_fetches = 1 /\ c_raw = None => c_pc = "returned"))
  /\ [][\A s \in Sessions :
          RunOf(s) =>
            /\ (u_pc[s] = "rerun" /\ u_run'[s].fetch # "none") => u_run[s].fetch = "none"
            /\ u_pc[s] = "rerun" => u_pc'[s] = "idle"]_vars

\* C11, what the code does instead: every script run entered with the loaded
\* flag false, a model and a non-empty URL field issues a fetch, whatever
\* started the run and whatever the fetch before it did.
C11_RefetchesWhileNotLoaded ==
  [][\A s \in Sessions :
       (RunOf(s) /\ ~Sidebar(session_state[s], website_url'[s], u_run'[s].event).rerun
          /\ ~u_run'[s].stopped)
         => (u_run'[s].fetch # "none"
               <=> (~session_state[s].url_loaded /\ website_url'[s] # ""))]_vars

\* C11 witness: the fetch of a UI session failed, the page shows the URL
\* field and no chat input, Context is unset and the loaded flag is false.
C11_Witness ==
  /\ FetchFailed(1)
  /\ u_pc[1] = "idle"
  /\ session_state[1].context = None
  /\ ~session_state[1].url_loaded
  /\ widgets[1] = {"url", "analyze"}

(***************************************************************************)
(* How the console loop ends                                               *)
(***************************************************************************)

\* the step is a loop iteration that read a line
ReadLine == c_inputs' # c_inputs

\* the loop was running before the step and is not after it
LoopEnds == c_pc = "AwaitingInput" /\ c_pc' # "AwaitingInput"

\* What every iteration that read a line does: the loop ends, with the
\* farewell, exactly when the line trims and case-folds to "exit"; every
\* other line (help, blank, question, the Answerer failing or not) returns
\* the loop to AwaitingInput; and once ended the loop reads nothing more.
ReadContract ==
  /\ ReadLine =>
       /\ c_pc = "AwaitingInput"
       /\ IF IsCommand(c_turn'.line, <<"e", "x", "i", "t">>)
          THEN /\ c_pc' = "ExitRequested"
               /\ c_msg' = "Thank you for using WebWhisper AI. Goodbye!"
          ELSE /\ c_pc' = "AwaitingInput"
               /\ c_turn'.route \in {"help", "warning", "answer"}
       /\ (c_turn'.asked /\ c_turn'.outcome.raised) => c_pc' = "AwaitingInput"
  /\ c_pc \in {"ExitRequested", "raised", "returned"} => UNCHANGED c_vars

\* C12 as stated: the console loop ends only through the exit command: the
\* step that ends it is the iteration that read the first line that trims and
\* case-folds to "exit", and it prints the farewell; every help, blank or
\* question line, a question whose Answerer call fails included, returns the
\* loop to AwaitingInput.
C12_AsStated ==
  [][/\ ReadContract
     /\ LoopEnds =>
          /\ ReadLine
          /\ c_pc' = "ExitRequested"
          /\ c_msg' = "Thank you for using WebWhisper AI. Goodbye!"]_vars

\* C12, the part the code keeps: every line that is read is dispatched as
\* stated, and the loop ends either at the first "exit" line, with the
\* farewell, or without reading a line and without the farewell, when
\* input() raises.
C12_ExitPaths ==
  [][/\ ReadContract
     /\ LoopEnds =>
          \/ ReadLine /\ c_pc' = "ExitRequested"
          \/ ~ReadLine /\ c_pc' = "raised"
                       /\ c_msg' # "Thank you for using WebWhisper AI. Goodbye!"]_vars

\* C12 witness: the loop read lines, none of them "exit", and has ended:
\* input() raised at the prompt.
C12_Witness ==
  /\ c_pc = "raised"
  /\ c_inputs > 0
  /\ c_calls > 0

(***************************************************************************)
(* Two sessions side by side                                               *)
(***************************************************************************)

\* ctx is the normalization of a page the URL serves
IsContextOf(ctx, url) == \E p \in PagesOf(url) : IsNormalized(ctx, p)

\* What a session holds is its own: the Context is the normalization of a
\* page of a URL its own user entered, every question in the log is its own
\* user's, and its model handle is the shared one.
OwnState(s) ==
  /\ session_state[s].context.some =>
       \E url \in UrlsOf(s) : IsContextOf(session_state[s].context.val, url)
  /\ Alternates(session_state[s].messages)
  /\ \A i \in 1..Len(session_state[s].messages) :
       session_state[s].messages[i].role = "user"
         => session_state[s].messages[i].content = QuestionOf(s)
  /\ session_state[s].model \in {"None", model_cache}

\* What a script run of session s may change: nothing of another session;
\* a Context it stores is the normalization of the page it fetched itself
\* for its own URL field; entries it appends are its own question and the
\* answer to it.
OwnRun(s) ==
  /\ \A t \in Sessions \ {s} : ~RunOf(t)
  /\ (session_state'[s].context # session_state[s].context /\ session_state'[s].context.some)
       => /\ u_run'[s].fetch = "ok"
          /\ u_run'[s].raw.val \in PagesOf(website_url'[s])
          /\ IsNormalized(session_state'[s].context.val, u_run'[s].raw.val)
  /\ session_state'[s].messages # session_state[s].messages
       => \/ session_state'[s].messages = <<>>
          \/ /\ u_run'[s].asked
             /\ session_state'[s].messages
                  = session_state[s].messages
                      \o << [role |-> "user", content |-> u_run'[s].question.val],
                            [role |-> "assistant",
                             content |-> Owed(u_run'[s].outcome, ErrorPrefix, FALSE)] >>

\* C13: two UI sessions that load different URLs and submit questions in
\* any interleaving stay isolated: a script run of one session changes
\* nothing of the other, each session's Context is the normalization of the
\* page fetched for its own URL, each session's log holds only its own
\* questions and the answers to them, and the only shared value is the model
\* handle, which is loaded once and which no later run modifies.
C13_Isolation ==
  /\ [](\A s \in Sessions : OwnState(s))
  /\ [][\A s \in Sessions : RunOf(s) => OwnRun(s)]_vars
  /\ [][model_cache # "empty" => model_cache' = model_cache]_vars

\* C13 witness: both sessions are loaded, the first from the default URL
\* and the second from the other site, and each log holds an exchange.
C13_Witness ==
  /\ session_state[1].context.some
  /\ IsContextOf(session_state[1].context.val, DefaultUrl)
  /\ session_state[2].context.some
  /\ IsContextOf(session_state[2].context.val, OtherUrl)
  /\ Len(session_state[1].messages) >= 2
  /\ Len(session_state[2].messages) >= 2
  /\ session_state[1].messages[1].content # session_state[2].messages[1].content
  /\ session_state[1].model = "pipeline" /\ session_state[2].model = "pipeline"

====
